---- MODULE Spec2Model ----
(***************************************************************************)
(* Chronow messaging core: producer, consumer loop, retry scheduler and    *)
(* dead-letter sink over the two hot-store backends (the native streaming  *)
(* log, and the document-database adapter of core/mongoAdapter.ts).        *)
(*                                                                         *)
(* One topic and one subscription of one (tenant, namespace) are modelled. *)
(* The document database is taken to store what the adapter writes: a      *)
(* dotted update path creates the nested map it names and a query on such  *)
(* a path sees what was written there.                                     *)
(***************************************************************************)
EXTENDS Integers, Sequences, FiniteSets, TLC

(***************************************************************************)
(* Bounds of the model.                                                    *)
(***************************************************************************)
MaxLog == 3
MaxDrainLog == 4
MaxTicks == 2
MaxYields == 3
TickMs == 200

(***************************************************************************)
(* Configuration the model runs with.                                      *)
(***************************************************************************)
Backends == {"native", "emulated"}
Consumers == {"c1", "c2"}
SubName == "s"
TopicKey == "topic"
DlqKey == "dlq"

\* What ensureSubscription is called with (bus/topics.ts 79-90 fills the rest).
SubConfigInput ==
  [visibilityTimeoutMs |-> 100, maxDeliveries |-> 2, retryBackoffMs |-> <<100, 200>>]

ProducerDefaults == [maxStreamLen |-> 100000, maxPayloadBytes |-> 8]
DlqDefaults == [maxStreamLen |-> 100000]

(***************************************************************************)
(* JSON values and texts.  A value is [k, v]: k its JavaScript kind, v its *)
(* canonical JSON text (for a string: its characters).                     *)
(***************************************************************************)
UNDEF == "undefined"
VObj(t) == [k |-> "obj", v |-> t]
VNum(t) == [k |-> "num", v |-> t]
VStr(s) == [k |-> "str", v |-> s]
VNull == [k |-> "null", v |-> "null"]
Undefined == [k |-> "undef", v |-> UNDEF]
ParseError == [k |-> "error", v |-> "SyntaxError"]

\* The characters of a string as JSON writes them: a double quote is escaped.
\* The one string of the model that holds quotes is "hi" with its quotes.
QuotedHi == "\"hi\""
Escape(str) == IF str = QuotedHi THEN "\\\"hi\\\"" ELSE str

\* JSON.stringify(value); JSON.stringify(undefined) is undefined.
JsonStringify(val) ==
  CASE val.k = "str" -> "\"" \o Escape(val.v) \o "\""
    [] val.k = "undef" -> UNDEF
    [] OTHER -> val.v

\* JSON.parse(text) on the texts that occur; anything else is a SyntaxError.
JsonParse(text) ==
  CASE text = "{\"id\":1}" -> VObj("{\"id\":1}")
    [] text = "{\"id\":12345}" -> VObj("{\"id\":12345}")
    [] text = "{}" -> VObj("{}")
    [] text = "\"hi\"" -> VStr("hi")
    [] text = "\"\\\"hi\\\"\"" -> VStr(QuotedHi)
    [] text = "\"1e10\"" -> VStr("1e10")
    [] text = "1e10" -> VNum("10000000000")
    [] text = "10000000000" -> VNum("10000000000")
    [] text = "100000" -> VNum("100000")
    [] text = "0" -> VNum("0")
    [] text = "1" -> VNum("1")
    [] text = "2" -> VNum("2")
    [] text = "3" -> VNum("3")
    [] text = "null" -> VNull
    [] OTHER -> ParseError

\* Buffer.byteLength(text, 'utf-8'); every text of the model is ASCII.
ByteLength(text) == Len(text)

\* Number(text) for the MAXLEN argument.
NumberOf(text) ==
  CASE text = "100000" -> 100000
    [] text = "1" -> 1
    [] text = "2" -> 2
    [] OTHER -> 0

\* value || fallback
Falsy(val) == val.k \in {"undef", "null"} \/ val = VNum("0") \/ val = VStr("")

Min(a, b) == IF a <= b THEN a ELSE b

\* toFlatArray(entry): entry given as its <<key, value>> pairs in order; a value
\* that is a string is pushed as is.
RECURSIVE toFlatArray(_)
toFlatArray(pairs) ==
  IF pairs = <<>> THEN <<>>
  ELSE <<pairs[1][1], pairs[1][2]>> \o toFlatArray(Tail(pairs))

\* fromFlatArray(arr)[key]: the last pair with that key wins; each value is
\* JSON-parsed, and kept as a string when that fails.
RECURSIVE FlatLookup(_, _, _)
FlatLookup(arr, key, sofar) ==
  IF Len(arr) < 2 THEN
    (IF Len(arr) = 1 /\ arr[1] = key THEN Undefined ELSE sofar)
  ELSE
    LET parsed == IF arr[2] = UNDEF THEN VNull ELSE JsonParse(arr[2])
        val == IF parsed = ParseError THEN VStr(arr[2]) ELSE parsed
    IN FlatLookup(SubSeq(arr, 3, Len(arr)), key, IF arr[1] = key THEN val ELSE sofar)

fromFlatArray(arr, key) == FlatLookup(arr, key, Undefined)

(***************************************************************************)
(* State.                                                                  *)
(***************************************************************************)
VARIABLES
  backend,        \* which hot store Chronow.init built (index.ts 50-88)
  now,            \* Date.now(), in ms
  streams,        \* stream key -> its entries, oldest first
  groups,         \* consumer groups existing on the topic stream
  lastDelivered,  \* native: the group's last-delivered id, as <<ms, seq>>
  pel,            \* in-flight records [id, consumer, at] of the group
  retry,          \* the retry sorted set: [member, score]
  subConfig,      \* the hash field <topicKey>:sub:<s>:config / config
  warm,           \* documents handed to the warm 'messages' collection
  pc,             \* per consumer loop: where it stands
  found,          \* emulated xreadgroup: the entries its find returned
  batch,          \* entries read and not yet dispatched
  handle,         \* the message handle the loop has yielded
  deliveryCounts, \* per consumer loop: Map msgId -> deliveries
  yields,         \* history: handles each loop has yielded, in order
  acked,          \* history: ids on which a handle's ack() has completed
  pubResult,      \* what the last producer call returned or threw
  kv,             \* hot key-value store: key -> the stored value and its expiry
  lastOp,         \* history: per shared-memory key, the last set or del on it
  purgeStats,     \* history: stats(topic).length as read right after the last purge
  dropped,        \* history: ids the loop acked because they did not parse
  readyRetries,   \* processRetries: the ready retries a loop still has to re-add
  xaddCall,       \* per caller of MongoAdapter.xadd: where the call stands, its locals
  returnedIds,    \* history: the ids MongoAdapter.xadd has returned, in order
  ensureCall      \* per caller of ensureTopic / ensureSubscription: where the call stands

storeVars == <<backend, streams, groups, lastDelivered, pel, retry, subConfig, warm>>
loopVars == <<pc, found, batch, handle, deliveryCounts, yields, acked, dropped, readyRetries>>
vars == <<backend, now, streams, groups, lastDelivered, pel, retry, subConfig, warm,
          pc, found, batch, handle, deliveryCounts, yields, acked, pubResult,
          kv, lastOp, purgeStats, dropped, readyRetries, xaddCall, returnedIds,
          ensureCall>>
\* What the message path (producer, consumer loop, handles) never writes.
sharedVars == <<kv, lastOp, purgeStats, xaddCall, returnedIds, ensureCall>>
NoStats == -1

NoConfig == [topic |-> "", subscription |-> ""]
NoHandle == [id |-> ""]
\* The callers of the adapter's xadd, and a caller that is not in a call.
Appenders == {"a1", "a2"}
NoCall == [pc |-> "idle"]
\* The callers of ensureTopic and ensureSubscription.
Callers == {"t1", "t2"}
GroupName == "sub:" \o SubName

\* Payloads the producer is called with: an object, a string that is not JSON,
\* a string that is itself JSON text, and an object over the size limit.
ObjPayload == VObj("{\"id\":1}")
BigPayload == VObj("{\"id\":12345}")
Payloads == {VObj("{\"id\":1}"), VStr("hi"), VStr("1e10"), VObj("{\"id\":12345}")}
NoHeaders == VObj("{}")

(***************************************************************************)
(* Stream primitives.                                                      *)
(***************************************************************************)
IdStr(p) == ToString(p[1]) \o "-" \o ToString(p[2])

\* Native log: ids grow strictly from the empty log's last id 0-0: same or
\* earlier ms than the last id -> seq + 1.
NativeNewId(s, t) ==
  LET l == IF s = <<>> THEN [ts |-> 0, seq |-> 0] ELSE s[Len(s)]
  IN IF l.ts >= t THEN <<l.ts, l.seq + 1>> ELSE <<t, 0>>

\* mongoAdapter.xadd: `${now}-${count of documents with timestamp now}`
MongoNewId(s, t) == <<t, Cardinality({i \in DOMAIN s : s[i].ts = t})>>

\* mongoAdapter.xadd argument scan, 0-based as in the source: the index of the
\* first element that is 'MAXLEN' (followed by a truthy args[i+2]) or '*'.
RECURSIVE MongoScan(_, _)
MongoScan(args, i) ==
  IF i >= Len(args) THEN [fieldsStart |-> 0, maxlen |-> 0]
  ELSE IF args[i + 1] = "MAXLEN" /\ i + 2 < Len(args) THEN
         [fieldsStart |-> i + 3, maxlen |-> NumberOf(args[i + 3])]
  ELSE IF args[i + 1] = "*" THEN [fieldsStart |-> i + 1, maxlen |-> 0]
  ELSE MongoScan(args, i + 1)

\* The fields object, kept as the flat array Object.entries(fields).flat() gives
\* back; a key without a value gets undefined.
MongoFields(args) ==
  LET fs == MongoScan(args, 0).fieldsStart
      rest == SubSeq(args, fs + 1, Len(args))
  IN IF Len(rest) % 2 = 1 THEN Append(rest, UNDEF) ELSE rest

RECURSIVE StarIndex(_, _)
StarIndex(args, i) ==
  IF i > Len(args) THEN Len(args)
  ELSE IF args[i] = "*" THEN i ELSE StarIndex(args, i + 1)

\* XADD key MAXLEN ~ n * field value ...: the fields follow the id argument.
NativeFields(args) == SubSeq(args, StarIndex(args, 1) + 1, Len(args))

\* Soft trim: drop the oldest entries beyond maxlen (0: no trim).
Trim(s, maxlen) ==
  IF maxlen > 0 /\ Len(s) > maxlen THEN SubSeq(s, Len(s) - maxlen + 1, Len(s)) ELSE s

XaddEntry(s, args, t, be) ==
  LET idp == IF be = "native" THEN NativeNewId(s, t) ELSE MongoNewId(s, t)
  IN [id |-> IdStr(idp), ts |-> idp[1], seq |-> idp[2],
      fields |-> IF be = "native" THEN NativeFields(args) ELSE MongoFields(args)]

xadd(s, args, t, be) ==
  Trim(Append(s, XaddEntry(s, args, t, be)), MongoScan(args, 0).maxlen)

XaddArgs(maxlen, flat) == <<"MAXLEN", "~", maxlen, "*">> \o flat

IdLess(a, b) == a[1] < b[1] \/ (a[1] = b[1] /\ a[2] < b[2])

Take(s, n) == SubSeq(s, 1, Min(n, Len(s)))

\* The entries of a read, newest first.
ItemsNewestFirst(s) ==
  [i \in DOMAIN s |-> [id |-> s[Len(s) + 1 - i].id, fields |-> s[Len(s) + 1 - i].fields]]

Items(s) == [i \in DOMAIN s |-> [id |-> s[i].id, fields |-> s[i].fields]]

InFlight == {r.id : r \in pel}

\* native XREADGROUP ... '>': entries after the group's last-delivered id.
NativeUnread(s) ==
  SelectSeq(s, LAMBDA e : IdLess(lastDelivered, <<e.ts, e.seq>>))

\* emulated xreadgroup '>': documents where pending.<group> does not exist.
MongoUnread(s) == SelectSeq(s, LAMBDA e : e.id \notin InFlight)

\* An acknowledge that leaves the pending record where it is.
xackNothing(p, id) == p

\* XACK / $unset pending.<group>
xack(p, id) == {r \in p : r.id # id}

\* the entries of one consumer's mark: $set pending.<group>.<consumer> = now
MarkPending(p, ids, c, t) ==
  {r \in p : ~(r.id \in ids /\ r.consumer = c)} \cup
  {[id |-> i, consumer |-> c, at |-> t] : i \in ids}

SeqIds(s) == {s[i].id : i \in DOMAIN s}

(***************************************************************************)
(* Topic manager (bus/topics.ts).                                          *)
(***************************************************************************)
\* The broker-wide defaults Chronow.init hands the topic manager.
TopicDefaults ==
  [visibilityTimeoutMs |-> 30000, maxDeliveries |-> 5,
   retryBackoffMs |-> <<1000, 5000, 30000>>]

\* config.f || fallback: a given value that is 0 or false gives way too.
GivenIfTruthy(config, f, fallback) ==
  IF f \notin DOMAIN config THEN fallback
  ELSE IF f = "deadLetterEnabled" THEN (IF config[f] THEN config[f] ELSE fallback)
  ELSE IF f = "retryBackoffMs" THEN config[f]
  ELSE IF config[f] = 0 THEN fallback ELSE config[f]

\* config.f ?? fallback
Given(config, f, fallback) == IF f \in DOMAIN config THEN config[f] ELSE fallback

\* The SubscriptionState ensureSubscription stores (createdAt left out: nothing
\* reads it).
SubscriptionState(config) ==
  [topic |-> TopicKey, subscription |-> SubName,
   visibilityTimeoutMs |->
     Given(config, "visibilityTimeoutMs", TopicDefaults.visibilityTimeoutMs),
   maxDeliveries |-> Given(config, "maxDeliveries", TopicDefaults.maxDeliveries),
   retryBackoffMs |-> Given(config, "retryBackoffMs", TopicDefaults.retryBackoffMs),
   deadLetterEnabled |-> Given(config, "deadLetterEnabled", TRUE),
   shardCount |-> Given(config, "shardCount", 1),
   blockMs |-> Given(config, "blockMs", 10000),
   count |-> Given(config, "count", 10)]

\* JSON.stringify(state), field by field: numbers in decimal, booleans as
\* true/false, strings quoted, the backoff array element by element.
NumberText(n) == ToString(n)
BooleanText(b) == IF b THEN "true" ELSE "false"
StateJson(state) ==
  [topic |-> JsonStringify(VStr(state.topic)),
   subscription |-> JsonStringify(VStr(state.subscription)),
   visibilityTimeoutMs |-> NumberText(state.visibilityTimeoutMs),
   maxDeliveries |-> NumberText(state.maxDeliveries),
   retryBackoffMs |-> [i \in DOMAIN state.retryBackoffMs |->
                         NumberText(state.retryBackoffMs[i])],
   deadLetterEnabled |-> BooleanText(state.deadLetterEnabled),
   shardCount |-> NumberText(state.shardCount),
   blockMs |-> NumberText(state.blockMs),
   count |-> NumberText(state.count)]

\* JSON.parse of that text: the number a decimal text denotes, among the
\* numbers a subscription state of the model holds.
ConfigNumbers == {0, 1, 2, 5, 10, 100, 200, 1000, 5000, 10000, 30000}
ParseNumber(text) == CHOOSE n \in ConfigNumbers : NumberText(n) = text
ParseString(text) == SubSeq(text, 2, Len(text) - 1)
ParseState(json) ==
  [topic |-> ParseString(json.topic),
   subscription |-> ParseString(json.subscription),
   visibilityTimeoutMs |-> ParseNumber(json.visibilityTimeoutMs),
   maxDeliveries |-> ParseNumber(json.maxDeliveries),
   retryBackoffMs |-> [i \in DOMAIN json.retryBackoffMs |->
                         ParseNumber(json.retryBackoffMs[i])],
   deadLetterEnabled |-> json.deadLetterEnabled = "true",
   shardCount |-> ParseNumber(json.shardCount),
   blockMs |-> ParseNumber(json.blockMs),
   count |-> ParseNumber(json.count)]

\* ensureTopic creates and destroys the '_init' group; then XGROUP CREATE of the
\* subscription's group from id 0 (BUSYGROUP swallowed), then hset of the state.
ensureSubscription(config) ==
  /\ groups' = groups \cup {GroupName}
  /\ lastDelivered' = IF GroupName \in groups THEN lastDelivered ELSE <<0, 0>>
  /\ subConfig' = ParseState(StateJson(SubscriptionState(config)))

EnsureSubscription ==
  /\ ensureSubscription(SubConfigInput)
  /\ UNCHANGED <<sharedVars, backend, now, streams, pel, retry, warm, loopVars, pubResult>>

(***************************************************************************)
(* Producer (bus/producer.ts).                                             *)
(***************************************************************************)
PublishEntry(payload, headers) ==
  <<<<"payload", JsonStringify(payload)>>, <<"headers", JsonStringify(headers)>>>>

WarmMessage(msgId, payload) == [msgId |-> msgId, payload |-> JsonStringify(payload)]

TooLarge(payload) ==
  ByteLength(JsonStringify(payload)) > ProducerDefaults.maxPayloadBytes

Publish(payload, persistWarmCopy) ==
  LET args == XaddArgs(ToString(ProducerDefaults.maxStreamLen),
                       toFlatArray(PublishEntry(payload, NoHeaders)))
      msgId == XaddEntry(streams[TopicKey], args, now, backend).id
  IN /\ IF TooLarge(payload) THEN
          /\ pubResult' = "payload-too-large"
          /\ UNCHANGED <<streams, warm>>
        ELSE
          /\ Len(streams[TopicKey]) < MaxLog
          /\ streams' = [streams EXCEPT ![TopicKey] = xadd(@, args, now, backend)]
          /\ warm' = IF persistWarmCopy THEN warm \cup {WarmMessage(msgId, payload)}
                     ELSE warm
          /\ pubResult' = msgId
     /\ UNCHANGED <<sharedVars, backend, now, groups, lastDelivered, pel, retry, subConfig, loopVars>>

\* The position of the first message of the batch over the size limit, 0 if none.
RECURSIVE FirstTooLarge(_, _)
FirstTooLarge(messages, i) ==
  IF i > Len(messages) THEN 0
  ELSE IF TooLarge(messages[i]) THEN i ELSE FirstTooLarge(messages, i + 1)

RECURSIVE PipelineExec(_, _, _, _)
PipelineExec(s, messages, t, be) ==
  IF messages = <<>> THEN s
  ELSE PipelineExec(
         xadd(s, XaddArgs(ToString(ProducerDefaults.maxStreamLen),
                          toFlatArray(PublishEntry(Head(messages), NoHeaders))), t, be),
         Tail(messages), t, be)

\* publishBatch: the loop checks and queues message after message and starts each
\* warm save (with msgId '') as it goes; the pipeline runs after the loop.
PublishBatch(messages, persistWarmCopy) ==
  LET bad == FirstTooLarge(messages, 1)
      looped == IF bad = 0 THEN Len(messages) ELSE bad - 1
      warmSaves == {WarmMessage("", messages[i]) : i \in 1 .. looped}
  IN /\ warm' = IF persistWarmCopy THEN warm \cup warmSaves ELSE warm
     /\ IF bad # 0 THEN
          /\ pubResult' = "payload-too-large"
          /\ streams' = streams
        ELSE
          /\ Len(streams[TopicKey]) + Len(messages) <= MaxLog
          /\ streams' = [streams EXCEPT ![TopicKey] = PipelineExec(@, messages, now, backend)]
          /\ pubResult' = "ok"
     /\ UNCHANGED <<sharedVars, backend, now, groups, lastDelivered, pel, retry, subConfig, loopVars>>

(***************************************************************************)
(* Retry scheduler (bus/retry.ts) and core/time.ts.                        *)
(***************************************************************************)
\* Math.random(), as a numerator over RandomDen.
RandomDen == 2
Randoms == 0 .. (RandomDen - 1)

\* calculateBackoff(attempt, backoffMs) with the random draw made explicit;
\* backoffMs[idx] is 0-based in the source.
calculateBackoff(attempt, backoffMs, rnd) ==
  LET idx == Min(attempt, Len(backoffMs) - 1)
      at(i) == IF i >= 0 /\ i < Len(backoffMs) THEN backoffMs[i + 1] ELSE 0
      baseDelay == IF at(idx) # 0 THEN at(idx)
                   ELSE IF at(Len(backoffMs) - 1) # 0 THEN at(Len(backoffMs) - 1)
                   ELSE 1000
      jitterAmount == (baseDelay * 2) \div 10
  IN baseDelay + (rnd * jitterAmount) \div RandomDen

\* JSON.stringify(entry) of a RetryEntry: a property whose value is undefined is
\* left out.
RetryMember(msgId, payload, headers, attempt, nextRetryMs) ==
  [msgId |-> msgId, payload |-> JsonStringify(payload),
   headers |-> JsonStringify(headers), attempt |-> attempt,
   nextRetryMs |-> nextRetryMs]

\* JSON.parse(member).payload / .headers
MemberValue(text) == IF text = UNDEF THEN Undefined ELSE JsonParse(text)

scheduleRetry(z, msgId, payload, headers, attempt, backoffMs, rnd, t) ==
  LET nextRetryMs == t + calculateBackoff(attempt, backoffMs, rnd)
      member == RetryMember(msgId, payload, headers, attempt, nextRetryMs)
  IN {m \in z : m.member # member} \cup {[member |-> member, score |-> nextRetryMs]}

\* A range read that returns the members in no particular order.
RECURSIVE AnyOrders(_)
AnyOrders(S) ==
  IF S = {} THEN {<<>>}
  ELSE UNION {{<<m.member>> \o rest : rest \in AnyOrders(S \ {m})} : m \in S}

\* zrangebyscore(key, -inf, now, LIMIT 0 limit): the orders in which the members due
\* at t can come back (ascending score; equal scores in either order).
RECURSIVE Orders(_)
Orders(S) ==
  IF S = {} THEN {<<>>}
  ELSE LET lo == {m \in S : \A o \in S : m.score <= o.score}
       IN UNION {{<<m.member>> \o rest : rest \in Orders(S \ {m})} : m \in lo}

getReadyRetries(z, t, limit) ==
  {Take(o, limit) : o \in Orders({m \in z : m.score <= t})}

removeRetry(z, entry) == {m \in z : m.member # entry}

(***************************************************************************)
(* Dead-letter sink (bus/dlq.ts).                                          *)
(***************************************************************************)
DeadLetterEntry(msgId, payload, headers, reason, deliveries) ==
  <<<<"originalMsgId", msgId>>, <<"payload", JsonStringify(payload)>>,
    <<"headers", JsonStringify(headers)>>, <<"reason", reason>>,
    <<"deliveries", ToString(deliveries)>>>>

sendToDeadLetter(ss, msgId, payload, headers, reason, deliveries, t, be) ==
  [ss EXCEPT ![DlqKey] =
     xadd(@, XaddArgs(ToString(DlqDefaults.maxStreamLen),
                      toFlatArray(DeadLetterEntry(msgId, payload, headers, reason,
                                                  deliveries))), t, be)]

(***************************************************************************)
(* Consumer loop (bus/consumer.ts).                                        *)
(***************************************************************************)
MapGet(m, id) == IF id \in DOMAIN m THEN m[id] ELSE 0
MapSet(m, id, n) == [x \in DOMAIN m \cup {id} |-> IF x = id THEN n ELSE m[x]]
MapDelete(m, id) == [x \in DOMAIN m \ {id} |-> m[x]]

\* consume() with the two steps in the other order: ensure first, then load.
StartEnsuresFirst(c) ==
  /\ pc[c] = "idle"
  /\ ensureSubscription(IF subConfig = NoConfig THEN SubConfigInput ELSE subConfig)
  /\ pc' = [pc EXCEPT ![c] = "drain"]
  /\ UNCHANGED <<readyRetries, dropped, sharedVars, backend, now, streams, pel, retry, warm, found, batch, handle,
                 deliveryCounts, yields, acked, pubResult>>

\* consume(): load the subscription state, fail if there is none, re-ensure it.
Start(c) ==
  /\ pc[c] = "idle"
  /\ IF subConfig = NoConfig THEN
       /\ pc' = [pc EXCEPT ![c] = "failed"]
       /\ UNCHANGED <<groups, lastDelivered, subConfig>>
     ELSE
       /\ ensureSubscription(subConfig)
       /\ pc' = [pc EXCEPT ![c] = "drain"]
  /\ UNCHANGED <<readyRetries, dropped, sharedVars, backend, now, streams, pel, retry, warm, found, batch, handle,
                 deliveryCounts, yields, acked, pubResult>>

\* The entry processRetries re-adds for one ready retry.
RetryLogEntry(member) ==
  <<<<"payload", JsonStringify(MemberValue(member.payload))>>,
    <<"headers", JsonStringify(MemberValue(member.headers))>>,
    <<"retryOf", member.msgId>>, <<"attempt", ToString(member.attempt)>>>>

RECURSIVE ReAdd(_, _, _, _)
ReAdd(s, ready, t, be) ==
  IF ready = <<>> THEN s
  ELSE ReAdd(xadd(s, XaddArgs("100000", toFlatArray(RetryLogEntry(Head(ready)))), t, be),
             Tail(ready), t, be)

\* Step 1 of an iteration: processRetries.
Drain(c) ==
  /\ pc[c] = "drain"
  /\ \E ready \in getReadyRetries(retry, now, 10) :
       /\ Len(streams[TopicKey]) + Len(ready) <= MaxLog
       /\ streams' = [streams EXCEPT ![TopicKey] = ReAdd(@, ready, now, backend)]
       /\ retry' = {m \in retry : \A i \in DOMAIN ready : m.member # ready[i]}
  /\ pc' = [pc EXCEPT ![c] = "reclaim"]
  /\ UNCHANGED <<readyRetries, dropped, sharedVars, backend, now, groups, lastDelivered, pel, subConfig, warm, found,
                 batch, handle, deliveryCounts, yields, acked, pubResult>>

\* XAUTOCLAIM key group consumer minIdle 0-0 COUNT 10: what it transfers.
Claimable(minIdleTime) ==
  IF backend = "native" THEN {r.id : r \in {q \in pel : now - q.at >= minIdleTime}}
  ELSE {r.id : r \in {q \in pel : q.at < now - minIdleTime}}

xautoclaim(c, minIdleTime) ==
  IF backend = "native" THEN
    {r \in pel : r.id \notin Claimable(minIdleTime)} \cup
    {[id |-> i, consumer |-> c, at |-> now] : i \in Claimable(minIdleTime)}
  ELSE MarkPending(pel, Claimable(minIdleTime), c, now)

\* Step 2: autoClaim; what xautoclaim returns is dropped.
AutoClaim(c) ==
  /\ pc[c] = "reclaim"
  /\ pel' = xautoclaim(c, subConfig.visibilityTimeoutMs)
  /\ pc' = [pc EXCEPT ![c] = "read"]
  /\ UNCHANGED <<readyRetries, dropped, sharedVars, backend, now, streams, groups, lastDelivered, retry, subConfig, warm,
                 found, batch, handle, deliveryCounts, yields, acked, pubResult>>

\* Step 3 on the native log: XREADGROUP is one command.
ReadNative(c) ==
  /\ backend = "native"
  /\ pc[c] = "read"
  /\ LET items == Take(NativeUnread(streams[TopicKey]), subConfig.count)
     IN IF items = <<>> THEN
          /\ pc' = [pc EXCEPT ![c] = "drain"]
          /\ UNCHANGED <<pel, lastDelivered, batch>>
        ELSE
          /\ pel' = MarkPending(pel, SeqIds(items), c, now)
          /\ lastDelivered' = <<items[Len(items)].ts, items[Len(items)].seq>>
          /\ batch' = [batch EXCEPT ![c] = Items(items)]
          /\ pc' = [pc EXCEPT ![c] = "dispatch"]
  /\ UNCHANGED <<readyRetries, dropped, sharedVars, backend, now, streams, groups, retry, subConfig, warm, found, handle,
                 deliveryCounts, yields, acked, pubResult>>

\* Step 3 on the document database, first half: the find (and, when it is empty
\* and blockMs > 0, the one repeated find after the wait).
Find(c) ==
  /\ backend = "emulated"
  /\ pc[c] \in {"read", "find2"}
  /\ LET messages == Take(MongoUnread(streams[TopicKey]), subConfig.count)
     IN IF messages # <<>> THEN
          /\ found' = [found EXCEPT ![c] = messages]
          /\ pc' = [pc EXCEPT ![c] = "mark"]
        ELSE
          /\ found' = found
          /\ pc' = [pc EXCEPT ![c] =
                      IF pc[c] = "read" /\ subConfig.blockMs > 0 THEN "find2" ELSE "drain"]
  /\ UNCHANGED <<readyRetries, dropped, sharedVars, backend, now, streams, groups, lastDelivered, pel, retry, subConfig,
                 warm, batch, handle, deliveryCounts, yields, acked, pubResult>>

\* Second half: mark what the find returned as pending for this consumer.
Mark(c) ==
  /\ pc[c] = "mark"
  /\ pel' = MarkPending(pel, SeqIds(found[c]) \cap SeqIds(streams[TopicKey]), c, now)
  /\ batch' = [batch EXCEPT ![c] = Items(found[c])]
  /\ found' = [found EXCEPT ![c] = <<>>]
  /\ pc' = [pc EXCEPT ![c] = "dispatch"]
  /\ UNCHANGED <<readyRetries, dropped, sharedVars, backend, now, streams, groups, lastDelivered, retry, subConfig, warm,
                 handle, deliveryCounts, yields, acked, pubResult>>

\* The payload and headers the loop parses out of an entry's fields.
ParsedPayload(fields) ==
  LET d == fromFlatArray(fields, "payload")
  IN IF d.k = "str" THEN JsonParse(d.v) ELSE d

ParsedHeaders(fields) ==
  LET d == fromFlatArray(fields, "headers")
  IN IF d.k = "str" THEN JsonParse(d.v) ELSE IF Falsy(d) THEN VObj("{}") ELSE d

\* Step 4, one entry of the batch: ack and skip what does not parse, else count
\* the delivery and yield the handle.
Dispatch(c) ==
  /\ pc[c] = "dispatch"
  /\ IF batch[c] = <<>> THEN
       /\ pc' = [pc EXCEPT ![c] = "drain"]
       /\ UNCHANGED <<pel, batch, handle, deliveryCounts, yields, dropped>>
     ELSE
       LET item == Head(batch[c])
           payload == ParsedPayload(item.fields)
           headers == ParsedHeaders(item.fields)
           currentCount == MapGet(deliveryCounts[c], item.id)
           message == [id |-> item.id, payload |-> payload, headers |-> headers,
                       redeliveryCount |-> currentCount]
       IN /\ batch' = [batch EXCEPT ![c] = Tail(@)]
          /\ IF payload = ParseError \/ headers = ParseError THEN
               /\ pel' = xack(pel, item.id)
               /\ dropped' = dropped \cup {item.id}
               /\ UNCHANGED <<pc, handle, deliveryCounts, yields>>
             ELSE
               /\ Len(yields[c]) < MaxYields
               /\ deliveryCounts' = [deliveryCounts EXCEPT ![c] =
                                       MapSet(@, item.id, currentCount + 1)]
               /\ handle' = [handle EXCEPT ![c] = message]
               /\ yields' = [yields EXCEPT ![c] =
                               Append(@, [id |-> item.id,
                                          redeliveryCount |-> currentCount,
                                          at |-> now])]
               /\ pc' = [pc EXCEPT ![c] = "yielded"]
               /\ UNCHANGED <<pel, dropped>>
  /\ UNCHANGED <<readyRetries, sharedVars, backend, now, streams, groups, lastDelivered, retry, subConfig,
                 warm, found, acked, pubResult>>

\* The user asks the iterator for the next handle without settling this one.
Resume(c) ==
  /\ pc[c] = "yielded"
  /\ pc' = [pc EXCEPT ![c] = "dispatch"]
  /\ handle' = [handle EXCEPT ![c] = NoHandle]
  /\ UNCHANGED <<readyRetries, dropped, sharedVars, storeVars, now, found, batch, deliveryCounts, yields, acked, pubResult>>

\* handle.ack()
Ack(c) ==
  /\ pc[c] = "yielded"
  /\ pel' = xack(pel, handle[c].id)
  /\ deliveryCounts' = [deliveryCounts EXCEPT ![c] = MapDelete(@, handle[c].id)]
  /\ acked' = acked \cup {handle[c].id}
  /\ pc' = [pc EXCEPT ![c] = "dispatch"]
  /\ handle' = [handle EXCEPT ![c] = NoHandle]
  /\ UNCHANGED <<readyRetries, dropped, sharedVars, backend, now, streams, groups, lastDelivered, retry, subConfig, warm,
                 found, batch, yields, pubResult>>

\* deliveryCounts.get(msgId) || 1
Deliveries(c) ==
  IF MapGet(deliveryCounts[c], handle[c].id) = 0 THEN 1
  ELSE MapGet(deliveryCounts[c], handle[c].id)

\* A nack that requeues unless told not to.
RequeueUnlessFalse(opts) == ~("requeue" \in DOMAIN opts /\ ~opts.requeue)

\* if (opts.requeue)
Requeue(opts) == "requeue" \in DOMAIN opts /\ opts.requeue

\* handle.nack(opts); only opts.requeue is read; rnd is the Math.random() draw of
\* calculateBackoff.
Nack(c, opts, rnd) ==
  /\ pc[c] = "yielded"
  /\ LET h == handle[c]
         deliveries == Deliveries(c)
     IN IF deliveries >= subConfig.maxDeliveries THEN
          /\ streams' = sendToDeadLetter(streams, h.id, h.payload, h.headers,
                                         "Max deliveries exceeded", deliveries, now,
                                         backend)
          /\ pel' = xack(pel, h.id)
          /\ deliveryCounts' = [deliveryCounts EXCEPT ![c] = MapDelete(@, h.id)]
          /\ retry' = retry
        ELSE IF Requeue(opts) THEN
          /\ retry' = scheduleRetry(retry, h.id, h.payload, h.headers, deliveries,
                                    subConfig.retryBackoffMs, rnd, now)
          /\ pel' = xack(pel, h.id)
          /\ UNCHANGED <<streams, deliveryCounts>>
        ELSE UNCHANGED <<streams, pel, deliveryCounts, retry>>
  /\ pc' = [pc EXCEPT ![c] = "dispatch"]
  /\ handle' = [handle EXCEPT ![c] = NoHandle]
  /\ UNCHANGED <<readyRetries, dropped, sharedVars, backend, now, groups, lastDelivered, subConfig, warm, found, batch,
                 yields, acked, pubResult>>

\* handle.deadLetter(reason)
DeadLetter(c, reason) ==
  /\ pc[c] = "yielded"
  /\ streams' = sendToDeadLetter(streams, handle[c].id, handle[c].payload,
                                 handle[c].headers, reason, Deliveries(c), now, backend)
  /\ pel' = xack(pel, handle[c].id)
  /\ deliveryCounts' = [deliveryCounts EXCEPT ![c] = MapDelete(@, handle[c].id)]
  /\ pc' = [pc EXCEPT ![c] = "dispatch"]
  /\ handle' = [handle EXCEPT ![c] = NoHandle]
  /\ UNCHANGED <<readyRetries, dropped, sharedVars, backend, now, groups, lastDelivered, retry, subConfig, warm, found,
                 batch, yields, acked, pubResult>>

Tick ==
  /\ now < MaxTicks * TickMs
  /\ now' = now + TickMs
  /\ UNCHANGED <<sharedVars, storeVars, loopVars, pubResult>>

(***************************************************************************)
(* The broker: one producer, the consumer loops, the clock.                *)
(***************************************************************************)
Init ==
  /\ backend \in Backends
  /\ now = 0
  /\ streams = [k \in {TopicKey, DlqKey} |-> <<>>]
  /\ groups = {}
  /\ lastDelivered = <<0, 0>>
  /\ pel = {}
  /\ retry = {}
  /\ subConfig = NoConfig
  /\ warm = {}
  /\ pc = [c \in Consumers |-> "idle"]
  /\ found = [c \in Consumers |-> <<>>]
  /\ batch = [c \in Consumers |-> <<>>]
  /\ handle = [c \in Consumers |-> NoHandle]
  /\ deliveryCounts = [c \in Consumers |-> <<>>]
  /\ yields = [c \in Consumers |-> <<>>]
  /\ acked = {}
  /\ pubResult = ""
  /\ kv = <<>>
  /\ lastOp = <<>>
  /\ purgeStats = NoStats
  /\ dropped = {}
  /\ readyRetries = [c \in Consumers |-> <<>>]
  /\ xaddCall = [a \in Appenders |-> NoCall]
  /\ returnedIds = <<>>
  /\ ensureCall = [a \in Callers |-> NoCall]

\* The options nack is called with.
DelayOpts == [requeue |-> TRUE, delayMs |-> 50]
NackOpts == {<<>>, [requeue |-> FALSE], [requeue |-> TRUE], DelayOpts}

\* What one consumer loop and the user holding its handle can do.
Loop(c) ==
  \/ Start(c)
  \/ Drain(c)
  \/ AutoClaim(c)
  \/ ReadNative(c)
  \/ Find(c)
  \/ Mark(c)
  \/ Dispatch(c)
  \/ Resume(c)
  \/ Ack(c)

Settle(c) ==
  \/ \E opts \in NackOpts, rnd \in Randoms : Nack(c, opts, rnd)
  \/ DeadLetter(c, "Manual dead-letter")

\* One consumer process on the subscription.
Next ==
  \/ EnsureSubscription
  \/ \E p \in {ObjPayload, BigPayload} : Publish(p, FALSE)
  \/ Tick
  \/ Loop("c1")
  \/ Settle("c1")

Spec == Init /\ [][Next]_vars

\* Two consumer loops of the same subscription, reading concurrently.
NextGroup ==
  \/ EnsureSubscription
  \/ Publish(ObjPayload, FALSE)
  \/ \E c \in Consumers : Loop(c)

SpecGroup == Init /\ [][NextGroup]_vars

\* One consumer that nacks for requeue whatever it is handed, over every payload.
NextCodec ==
  \/ EnsureSubscription
  \/ \E p \in Payloads : Publish(p, FALSE)
  \/ Tick
  \/ Start("c1")
  \/ Drain("c1")
  \/ AutoClaim("c1")
  \/ ReadNative("c1")
  \/ Find("c1")
  \/ Mark("c1")
  \/ Dispatch("c1")
  \/ Nack("c1", [requeue |-> TRUE], 0)

SpecCodec == Init /\ [][NextCodec]_vars


\* The producer alone: single and batch publishes, with and without warm copies.
Batches == {<<a, b>> : a \in {ObjPayload, BigPayload}, b \in {ObjPayload, BigPayload}}

NextProducer ==
  \/ \E p \in Payloads, w \in BOOLEAN : Publish(p, w)
  \/ \E m \in Batches, w \in BOOLEAN : PublishBatch(m, w)
  \/ Tick

SpecProducer == Init /\ [][NextProducer]_vars

(***************************************************************************)
(* What the claims speak of.                                               *)
(***************************************************************************)
\* The value an entry's flat field array holds for a key (UNDEF: no such key).
RECURSIVE RawField(_, _)
RawField(fields, key) ==
  IF Len(fields) < 2 THEN UNDEF
  ELSE IF fields[1] = key THEN fields[2]
  ELSE RawField(SubSeq(fields, 3, Len(fields)), key)

\* An entry processRetries appended: it carries the word retryOf.
IsRetryEntry(e) == \E i \in DOMAIN e.fields : e.fields[i] = "retryOf"

\* The ids publish has returned (the log is never trimmed within the bounds).
Published ==
  {streams[TopicKey][i].id :
     i \in {j \in DOMAIN streams[TopicKey] : ~IsRetryEntry(streams[TopicKey][j])}}

\* The ids a loop has yielded a handle for.
YieldedIds(c) == {yields[c][i].id : i \in DOMAIN yields[c]}

\* A group read has just returned a batch to loop c.
ReadReturned(c) == pc[c] \in {"read", "mark"} /\ pc'[c] = "dispatch"

\* C1: once ack() on a handle has completed, no later group read of the
\* subscription returns that message id to any consumer loop, on either backend.
C1_AckIsTerminal ==
  [][\A c \in Consumers : ReadReturned(c) => SeqIds(batch'[c]) \cap acked = {}]_vars

\* C2: on the native log, with one message published and every delivery nacked
\* with requeue:true, a consumer process is handed that message (the original
\* delivery and its retry redeliveries together) at most maxDeliveries times.
C2_BoundedDeliveries ==
  (backend = "native" /\ Cardinality(Published) = 1 /\ subConfig # NoConfig)
    => \A c \in Consumers : Len(yields[c]) <= subConfig.maxDeliveries

\* C3: when a loop iteration ends, every entry the loop holds pending (read by
\* it, or reclaimed by it after the visibility timeout) has been yielded by the
\* loop at or after the moment the loop took it.
C3_ReclaimedIsYielded ==
  \A c \in Consumers :
    pc[c] = "drain" =>
      \A r \in pel :
        r.consumer = c =>
          \E i \in DOMAIN yields[c] : yields[c][i].id = r.id /\ yields[c][i].at >= r.at

\* C4: no entry a group read ('>') returns to one consumer is at that moment
\* already pending for another consumer of the group: each entry is handed to
\* one consumer only, whatever the interleaving of the reads.
C4_ExclusiveRead ==
  [][\A c \in Consumers :
       ReadReturned(c) =>
         \A r \in pel : r.consumer # c => r.id \notin SeqIds(batch'[c])]_vars

\* C5: a published message leaves the group's pending set (acked, dead-lettered
\* or dropped) only after some consumer loop has been handed it.
C5_AtLeastOnce ==
  [][\A id \in Published :
       (id \in InFlight /\ id \notin InFlight') =>
         \E c \in Consumers : id \in YieldedIds(c)]_vars

\* C6: no entry of the topic log has an encoded payload longer than
\* maxPayloadBytes, after any sequence of publishes and retry drains.
C6_PayloadBound ==
  \A i \in DOMAIN streams[TopicKey] :
    LET text == RawField(streams[TopicKey][i].fields, "payload")
    IN text # UNDEF => ByteLength(text) <= ProducerDefaults.maxPayloadBytes

\* C7: a producer call that fails with payload-too-large has published nothing:
\* the topic log and the warm store are as they were before the call.
C7_BatchAllOrNothing ==
  [][pubResult' = "payload-too-large" => (streams' = streams /\ warm' = warm)]_vars

\* C8: a retry scheduled for attempt n is due no earlier than
\* backoff[min(n-1, len-1)] after the nack, and no later than 1.2 times that.
C8_RetryDelayBounds ==
  [][\A m \in retry' \ retry :
       LET backoffMs == subConfig.retryBackoffMs
           base == backoffMs[Min(m.member.attempt - 1, Len(backoffMs) - 1) + 1]
           delay == m.score - now
       IN delay >= base /\ 5 * delay <= 6 * base]_vars

\* C9: nack({requeue:true, delayMs:X}) below the delivery cap schedules the retry
\* entry of the nacked message at now + X.
C9_DelayOverride ==
  [][\A c \in Consumers, rnd \in Randoms :
       (Nack(c, DelayOpts, rnd) /\ Deliveries(c) < subConfig.maxDeliveries) =>
         \E m \in retry' :
           m.member.msgId = handle[c].id /\ m.score = now + DelayOpts.delayMs]_vars

\* C10: with one message published and every delivery nacked with requeue:true,
\* the redeliveryCount a consumer process sees on its successive deliveries is
\* 0, 1, 2, ...
C10_RedeliveryCount ==
  Cardinality(Published) = 1 =>
    \A c \in Consumers :
      \A i \in DOMAIN yields[c] : yields[c][i].redeliveryCount = i - 1

\* The log entry a message id names.
EntryOf(id) ==
  LET i == CHOOSE j \in DOMAIN streams[TopicKey] : streams[TopicKey][j].id = id
  IN streams[TopicKey][i]

\* headers = {"retryOf": id}, as JSON text.
RetryOfHeaders(id) == VObj("{\"retryOf\":\"" \o id \o "\"}")

\* C11: with one message published and every delivery nacked with requeue:true,
\* the DLQ never holds more than one entry, and an entry it holds names the id
\* the publish returned as originalMsgId, with reason "Max deliveries exceeded".
C11_DlqEntryNamesOriginal ==
  Cardinality(Published) = 1 =>
    /\ Len(streams[DlqKey]) <= 1
    /\ \A i \in DOMAIN streams[DlqKey] :
         /\ RawField(streams[DlqKey][i].fields, "originalMsgId") \in Published
         /\ RawField(streams[DlqKey][i].fields, "reason") = "Max deliveries exceeded"

\* C12: a handle yielded for an entry the retry drain appended carries headers
\* with retryOf equal to the id of the nacked message.
C12_RetryOfHeader ==
  \A c \in Consumers :
    (pc[c] = "yielded" /\ IsRetryEntry(EntryOf(handle[c].id))) =>
      \E id \in SeqIds(streams[TopicKey]) : handle[c].headers = RetryOfHeaders(id)

(***************************************************************************)
(* A handle is a closure over (msgId, payload, headers) that user code may  *)
(* keep and call again after one of its terminal operations has completed.  *)
(***************************************************************************)
\* The handle the loop built for a log entry.
HandleOf(id) ==
  [id |-> id, payload |-> ParsedPayload(EntryOf(id).fields),
   headers |-> ParsedHeaders(EntryOf(id).fields)]

\* deliveryCounts.get(msgId) || 1, for a handle kept from an earlier yield
DeliveriesOf(c, id) ==
  IF MapGet(deliveryCounts[c], id) = 0 THEN 1 ELSE MapGet(deliveryCounts[c], id)

\* A terminal operation has completed on the handle of id that loop c yielded:
\* it was acked, or it stands in the retry set or in the DLQ.
Settled(c, id) ==
  /\ id \in YieldedIds(c)
  /\ handle[c].id # id
  /\ \/ id \in acked
     \/ \E m \in retry : m.member.msgId = id
     \/ \E i \in DOMAIN streams[DlqKey] :
          \E j \in DOMAIN streams[DlqKey][i].fields : streams[DlqKey][i].fields[j] = id

\* handle.ack() once more
AckAgain(c, id) ==
  /\ Settled(c, id)
  /\ pel' = xack(pel, id)
  /\ deliveryCounts' = [deliveryCounts EXCEPT ![c] = MapDelete(@, id)]
  /\ acked' = acked \cup {id}
  /\ UNCHANGED <<readyRetries, dropped, sharedVars, backend, now, streams, groups, lastDelivered, retry, subConfig, warm,
                 pc, found, batch, handle, yields, pubResult>>

\* handle.nack({requeue:true}) once more
NackAgain(c, id, rnd) ==
  /\ Settled(c, id)
  /\ LET h == HandleOf(id)
         deliveries == DeliveriesOf(c, id)
     IN IF deliveries >= subConfig.maxDeliveries THEN
          /\ Len(streams[DlqKey]) < MaxLog
          /\ streams' = sendToDeadLetter(streams, id, h.payload, h.headers,
                                         "Max deliveries exceeded", deliveries, now,
                                         backend)
          /\ pel' = xack(pel, id)
          /\ deliveryCounts' = [deliveryCounts EXCEPT ![c] = MapDelete(@, id)]
          /\ retry' = retry
        ELSE
          /\ retry' = scheduleRetry(retry, id, h.payload, h.headers, deliveries,
                                    subConfig.retryBackoffMs, rnd, now)
          /\ pel' = xack(pel, id)
          /\ UNCHANGED <<streams, deliveryCounts>>
  /\ UNCHANGED <<readyRetries, dropped, sharedVars, backend, now, groups, lastDelivered, subConfig, warm, pc, found, batch,
                 handle, yields, acked, pubResult>>

\* handle.deadLetter() once more
DeadLetterAgain(c, id) ==
  /\ Settled(c, id)
  /\ Len(streams[DlqKey]) < MaxLog
  /\ streams' = sendToDeadLetter(streams, id, HandleOf(id).payload, HandleOf(id).headers,
                                 "Manual dead-letter", DeliveriesOf(c, id), now, backend)
  /\ pel' = xack(pel, id)
  /\ deliveryCounts' = [deliveryCounts EXCEPT ![c] = MapDelete(@, id)]
  /\ UNCHANGED <<readyRetries, dropped, sharedVars, backend, now, groups, lastDelivered, retry, subConfig, warm, pc, found,
                 batch, handle, yields, acked, pubResult>>

\* One consumer whose user code calls terminal operations again on settled handles.
NextHandle ==
  \/ EnsureSubscription
  \/ Publish(ObjPayload, FALSE)
  \/ Loop("c1")
  \/ Nack("c1", [requeue |-> TRUE], 0)
  \/ DeadLetter("c1", "Manual dead-letter")
  \/ \E id \in YieldedIds("c1") : AckAgain("c1", id)
  \/ \E id \in YieldedIds("c1") : NackAgain("c1", id, 0)
  \/ \E id \in YieldedIds("c1") : DeadLetterAgain("c1", id)

SpecHandle == Init /\ [][NextHandle]_vars

\* C13: a further ack, nack or deadLetter on a handle whose terminal operation
\* has completed changes neither the in-flight set, the retry set nor the DLQ.
C13_TerminalOnce ==
  [][\A c \in Consumers : \A id \in YieldedIds(c) :
       (AckAgain(c, id) \/ NackAgain(c, id, 0) \/ DeadLetterAgain(c, id)) =>
         UNCHANGED <<pel, retry, streams>>]_vars

(***************************************************************************)
(* Topic administration (bus/topics.ts).                                   *)
(***************************************************************************)
\* XINFO STREAM of the native log: the reply starts length, radix-tree-keys,
\* radix-tree-nodes, last-generated-id, and names the groups after them.  The
\* entries of a log this short share one tree key (two nodes; an empty log has
\* the root only).  The command fails on a key that does not exist.
NativeInfo ==
  <<VStr("length"), VNum(ToString(Len(streams[TopicKey]))),
    VStr("radix-tree-keys"), VNum(IF streams[TopicKey] = <<>> THEN "0" ELSE "1"),
    VStr("radix-tree-nodes"), VNum(IF streams[TopicKey] = <<>> THEN "1" ELSE "2"),
    VStr("last-generated-id"),
    VStr(IF streams[TopicKey] = <<>> THEN "0-0"
         ELSE streams[TopicKey][Len(streams[TopicKey])].id),
    VStr("groups"), VNum(ToString(Cardinality(groups)))>>

\* MongoAdapter.xinfo('STREAM', stream)
MongoInfo ==
  <<VStr("length"), VNum(ToString(Len(streams[TopicKey]))),
    VStr("groups"), VNum(ToString(Cardinality(groups)))>>

\* info[i], 0-based as in the source
InfoAt(info, i) == IF i + 1 \in DOMAIN info THEN info[i + 1] ELSE Undefined

\* The number a numeric reply element stands for.
InfoNumber(val) == CHOOSE n \in 0 .. MaxDrainLog : ToString(n) = val.v

\* TopicManager.getStats: length is info[1] and groups is info[5] of XINFO
\* STREAM; {length: 0, groups: 0} when the command throws.
getStats ==
  IF backend = "native" /\ streams[TopicKey] = <<>> /\ groups = {} THEN
    [topic |-> TopicKey, length |-> 0, groups |-> VNum("0")]
  ELSE
    LET info == IF backend = "native" THEN NativeInfo ELSE MongoInfo
    IN [topic |-> TopicKey, length |-> InfoNumber(InfoAt(info, 1)),
        groups |-> InfoAt(info, 5)]

\* TopicManager.purgeTopic: del(topicKey), then ensureTopic.  On the native log
\* DEL removes the stream with its groups and their pending entries, and
\* ensureTopic makes it anew, empty.  MongoAdapter.del deletes from the kv
\* collection only: the documents of the streams collection stay.  The caller
\* then reads stats(topic).length.
Purge ==
  /\ IF backend = "native" THEN
       /\ streams' = [streams EXCEPT ![TopicKey] = <<>>]
       /\ groups' = {}
       /\ pel' = {}
     ELSE UNCHANGED <<streams, groups, pel>>
  /\ UNCHANGED <<kv, lastOp, xaddCall, returnedIds, ensureCall, backend, now, lastDelivered, retry, subConfig,
                 warm, loopVars, pubResult>>
  /\ purgeStats' = getStats'.length

\* TopicManager.deleteSubscription: XGROUP DESTROY, then del of the config hash.
\* The native group goes with its pending entries; the emulated adapter keeps
\* pending marks on the stream documents.
DeleteSubscription ==
  /\ groups' = groups \ {GroupName}
  /\ pel' = IF backend = "native" THEN {} ELSE pel
  /\ subConfig' = NoConfig
  /\ UNCHANGED <<sharedVars, backend, now, streams, lastDelivered, retry, warm, loopVars,
                 pubResult>>

\* The administrator, a producer and consumers that start.
NextTopic ==
  \/ EnsureSubscription
  \/ Publish(ObjPayload, FALSE)
  \/ Purge
  \/ DeleteSubscription
  \/ Tick
  \/ \E c \in Consumers : Start(c)

SpecTopic == Init /\ [][NextTopic]_vars

\* C14: when purge(topic) has completed, stats(topic).length is 0, and a publish
\* that succeeds adds one to the length stats reports, on either backend.
C14_PurgeResets ==
  [][/\ purgeStats' # purgeStats => purgeStats' = 0
     /\ (Publish(ObjPayload, FALSE) /\ Len(streams'[TopicKey]) # Len(streams[TopicKey]))
          => getStats'.length = getStats.length + 1]_vars

\* C20: consume on a subscription with no stored state (never ensured, or
\* deleted) fails before it yields anything and leaves the consumer groups, the
\* subscription config and the logs as they were; deleteSubscription leaves no
\* stored state.
C20_SubscriptionNotFound ==
  [][/\ \A c \in Consumers :
          (pc[c] = "idle" /\ pc'[c] # "idle" /\ subConfig = NoConfig) =>
            /\ pc'[c] = "failed"
            /\ yields'[c] = <<>>
            /\ UNCHANGED <<groups, subConfig, streams>>
     /\ DeleteSubscription => (subConfig' = NoConfig /\ GroupName \notin groups')]_vars

\* A consumer has failed to start on a subscription that another consumer had
\* started on before it was deleted.
C20_Witness ==
  /\ pc["c1"] = "failed"
  /\ pc["c2"] = "drain"
  /\ subConfig = NoConfig
  /\ groups = {}
  /\ streams[TopicKey] # <<>>

(***************************************************************************)
(* Shared memory (SharedMemory.set / get / del) over the hot key-value     *)
(* store and the warm store.  exists and expire are left out.              *)
(***************************************************************************)
MaxSeconds == 2

\* (tenantId, namespace) pairs a caller may pass; nothing validates either.
Scopes == {<<"t", "n">>, <<"t", "a:b">>, <<"t:a", "b">>}
Names == {"k"}
KeyPrefix == "cw:"
SharedDefaults == [hotTtlSeconds |-> 1, maxValueBytes |-> 8]
HotTtls == {SharedDefaults.hotTtlSeconds}
SharedValues == {ObjPayload, VStr("1e10"), BigPayload}
NoWarm == [persist |-> FALSE, upsertStrategy |-> "latest"]
WarmOpts == {NoWarm, [persist |-> TRUE, upsertStrategy |-> "latest"],
             [persist |-> TRUE, upsertStrategy |-> "append"]}

\* buildKey({tenantId, namespace, kind, name}, keyPrefix)
buildKey(tenantId, namespace, kind, name) ==
  KeyPrefix \o tenantId \o ":" \o namespace \o ":" \o kind \o ":" \o name

SharedKey(scope, name) == buildKey(scope[1], scope[2], "sm", name)

\* A Buffer holding the UTF-8 bytes of a text, and the base64 string of a
\* Buffer.  Decoding a base64 string gives the bytes back; reading it as
\* UTF-8 gives the bytes of the base64 characters.
NoBuffer == [enc |-> "none", text |-> ""]
BufferFrom(text) == [enc |-> "utf8", text |-> text]
ToBase64(buf) == [enc |-> "base64", text |-> buf.text]
BufferFromBase64(str) ==
  IF str.enc = "base64" THEN BufferFrom(str.text) ELSE BufferFrom("?")
BufferFromString(str) ==
  IF str.enc = "base64" THEN BufferFrom("base64:" \o str.text) ELSE BufferFrom(str.text)

\* encodeJson(value, maxBytes): the Buffer, or NoBuffer when it throws.
encodeJson(value, maxBytes) ==
  LET json == JsonStringify(value)
  IN IF ByteLength(json) > maxBytes THEN NoBuffer ELSE BufferFrom(json)

\* decodeJson(buf)
decodeJson(buf) == JsonParse(buf.text)

\* redis.set(key, buf, 'EX', seconds), seconds > 0: the emulation stores the
\* base64 text with isBuffer, the native store the bytes.
redisSet(key, buf, seconds) ==
  LET doc == [value |-> IF backend = "emulated" THEN ToBase64(buf) ELSE buf,
              isBuffer |-> TRUE,
              expiresAt |-> now + seconds * 1000]
  IN [k \in DOMAIN kv \cup {key} |-> IF k = key THEN doc ELSE kv[k]]

\* redis.getBuffer(key): the native store hides a key from its expiry time
\* on; the emulation returns whatever document is there.
getBufferAsText(key) ==
  IF key \notin DOMAIN kv THEN NoBuffer
  ELSE IF backend = "native" THEN
    (IF now < kv[key].expiresAt THEN kv[key].value ELSE NoBuffer)
  ELSE BufferFromString(kv[key].value)

getBuffer(key) ==
  IF key \notin DOMAIN kv THEN NoBuffer
  ELSE IF backend = "native" THEN
    (IF now < kv[key].expiresAt THEN kv[key].value ELSE NoBuffer)
  ELSE IF kv[key].isBuffer THEN BufferFromBase64(kv[key].value)
  ELSE BufferFromString(kv[key].value)

\* redis.del(key)
redisDel(key) == [k \in DOMAIN kv \ {key} |-> kv[k]]

\* warm.loadShared(namespace, name, {tenantId}): findOne of the warm
\* collection resolves to null, so `doc ? doc.val : null` is null.
loadShared(namespace, name, tenantId) == VNull

\* SharedMemory.get(name, {tenantId, namespace})
SharedGet(scope, name) ==
  LET raw == getBuffer(SharedKey(scope, name))
  IN IF raw # NoBuffer THEN decodeJson(raw)
     ELSE loadShared(scope[2], name, scope[1])

\* SharedMemory.set(name, value, {tenantId, namespace, hotTtlSeconds, warm}):
\* nothing is written when encodeJson throws; saveShared hands the warm
\* collection a document that it drops.
SharedSet(scope, name, value, ttl, warmOpts) ==
  LET buf == encodeJson(value, SharedDefaults.maxValueBytes)
  IN /\ buf # NoBuffer
     /\ kv' = redisSet(SharedKey(scope, name), buf, ttl)
     /\ lastOp' = [i \in DOMAIN lastOp \cup {<<scope, name>>} |->
                     IF i = <<scope, name>>
                     THEN [op |-> "set", value |-> value, hotUntil |-> now + ttl * 1000,
                           warm |-> warmOpts, tombstone |-> FALSE]
                     ELSE lastOp[i]]
     /\ UNCHANGED <<purgeStats, xaddCall, returnedIds, ensureCall, storeVars, now, loopVars, pubResult>>

\* SharedMemory.del(name, {tenantId, namespace, tombstone})
SharedDel(scope, name, tombstone) ==
  /\ kv' = redisDel(SharedKey(scope, name))
  /\ lastOp' = [i \in DOMAIN lastOp \cup {<<scope, name>>} |->
                  IF i = <<scope, name>>
                  THEN [op |-> "del", value |-> VNull, hotUntil |-> 0,
                        warm |-> NoWarm, tombstone |-> tombstone]
                  ELSE lastOp[i]]
  /\ UNCHANGED <<purgeStats, xaddCall, returnedIds, ensureCall, storeVars, now, loopVars, pubResult>>

\* The background removal of expired keys: the TTL index of the emulation
\* (connect), the expiry cycle of the native store.
TtlMonitor ==
  /\ \E k \in DOMAIN kv : kv[k].expiresAt <= now
  /\ kv' = [k \in {j \in DOMAIN kv : kv[j].expiresAt > now} |-> kv[k]]
  /\ UNCHANGED <<lastOp, purgeStats, xaddCall, returnedIds, ensureCall, storeVars, now, loopVars, pubResult>>

\* One second passes.
Elapse ==
  /\ now < MaxSeconds * 1000
  /\ now' = now + 1000
  /\ UNCHANGED <<sharedVars, storeVars, loopVars, pubResult>>

NextShared ==
  \/ \E scope \in Scopes, name \in Names, value \in SharedValues, ttl \in HotTtls,
        warmOpts \in WarmOpts : SharedSet(scope, name, value, ttl, warmOpts)
  \/ \E scope \in Scopes, name \in Names, tombstone \in BOOLEAN :
        SharedDel(scope, name, tombstone)
  \/ TtlMonitor
  \/ Elapse

SpecShared == Init /\ [][NextShared]_vars

\* C15: right after a set that was accepted, get with the same tenant,
\* namespace and name returns the value that was set.
C15_RoundTrip ==
  [][\A scope \in Scopes, name \in Names :
        LET id == <<scope, name>>
        IN (id \in DOMAIN lastOp' /\ lastOp'[id].op = "set") =>
             \A ttl \in HotTtls :
               SharedSet(scope, name, lastOp'[id].value, ttl, lastOp'[id].warm) =>
                 SharedGet(scope, name)' = lastOp'[id].value]_vars

C15_Witness ==
  /\ backend = "emulated"
  /\ <<<<"t", "a:b">>, "k">> \in DOMAIN lastOp
  /\ lastOp[<<<<"t", "a:b">>, "k">>].op = "set"
  /\ lastOp[<<<<"t", "a:b">>, "k">>].value = VStr("1e10")
  /\ SharedGet(<<"t", "a:b">>, "k") = VStr("1e10")

\* The names that were set or deleted, each with its last operation.
Operated == DOMAIN lastOp

\* C16: when the last operation on a name is a set without warm persistence
\* and its hot TTL has passed, get returns null; no key read returns a
\* value whose expiry time has passed.
C16_HotTtlExpiry ==
  /\ \A k \in DOMAIN kv : now > kv[k].expiresAt => getBuffer(k) = NoBuffer
  /\ \A id \in Operated :
       (/\ lastOp[id].op = "set"
        /\ ~lastOp[id].warm.persist
        /\ now > lastOp[id].hotUntil) => SharedGet(id[1], id[2]) = VNull

\* C17: when the last operation on a name is a set with warm persistence
\* and its hot TTL has passed, get returns the value that was set.
C17_WarmFallback ==
  \A id \in Operated :
    (/\ lastOp[id].op = "set"
     /\ lastOp[id].warm.persist
     /\ now > lastOp[id].hotUntil) => SharedGet(id[1], id[2]) = lastOp[id].value

\* C18: when the last operation on a name is a del with tombstone, get of
\* that name returns null.
C18_Tombstone ==
  \A id \in Operated :
    (lastOp[id].op = "del" /\ lastOp[id].tombstone) => SharedGet(id[1], id[2]) = VNull

\* C19: a step that operates on other (tenant, namespace) pairs only, at one
\* instant, leaves what get returns for this pair as it was.
C19_Isolation ==
  [][\A scope \in Scopes, name \in Names :
        LET id == <<scope, name>>
        IN (/\ lastOp' # lastOp
            /\ (id \in Operated) = (id \in Operated')
            /\ id \in Operated => lastOp'[id] = lastOp[id]) =>
             SharedGet(scope, name)' = SharedGet(scope, name)]_vars

(***************************************************************************)
(* Store failures inside a loop iteration: a command of the hot store      *)
(* rejects (connection lost, timeout) while the loop is draining retries   *)
(* or reclaiming.                                                          *)
(***************************************************************************)
\* processRetries with a failing store call: zrangebyscore fails (nothing done),
\* or, after k retries were re-added and removed, the xadd of the next one
\* fails, or its zrem does.  consume() awaits processRetries outside any try
\* block, so the rejection ends the iterator.
DrainFails(c) ==
  /\ pc[c] = "drain"
  /\ \E ready \in getReadyRetries(retry, now, 10) :
       \E k \in 0 .. Len(ready), readded \in 0 .. Len(ready) :
         /\ k < Len(ready) \/ ready = <<>>
         /\ readded \in {k, k + 1}
         /\ Len(streams[TopicKey]) + readded <= MaxLog
         /\ streams' = [streams EXCEPT
                          ![TopicKey] = ReAdd(@, SubSeq(ready, 1, readded), now, backend)]
         /\ retry' = {m \in retry : \A i \in 1 .. k : m.member # ready[i]}
  /\ pc' = [pc EXCEPT ![c] = "failed"]
  /\ UNCHANGED <<readyRetries, dropped, sharedVars, backend, now, groups, lastDelivered, pel, subConfig, warm,
                 found, batch, handle, deliveryCounts, yields, acked, pubResult>>

\* autoClaim with a failing xautoclaim: the catch block swallows the error
\* (and manualClaim, tried for 'unknown command', swallows its own).
AutoClaimFails(c) ==
  /\ pc[c] = "reclaim"
  /\ pc' = [pc EXCEPT ![c] = "read"]
  /\ UNCHANGED <<readyRetries, dropped, sharedVars, storeVars, now, found, batch, handle, deliveryCounts,
                 yields, acked, pubResult>>

NextFault ==
  \/ EnsureSubscription
  \/ Publish(ObjPayload, FALSE)
  \/ Tick
  \/ Start("c1")
  \/ Drain("c1")
  \/ DrainFails("c1")
  \/ AutoClaim("c1")
  \/ AutoClaimFails("c1")
  \/ ReadNative("c1")
  \/ Find("c1")
  \/ Mark("c1")
  \/ Dispatch("c1")
  \/ Nack("c1", [requeue |-> TRUE], 0)

SpecFault == Init /\ [][NextFault]_vars

\* C21: a loop that is in its retry-drain step or its reclaim step does not
\* terminate in that step, whether or not the store fails.
C21_LoopSurvivesStoreErrors ==
  [][\A c \in Consumers : pc[c] \in {"drain", "reclaim"} => pc'[c] # "failed"]_vars

(***************************************************************************)
(* Entries that do not decode.                                             *)
(***************************************************************************)
\* The try block of the loop throws on this entry.
Unparseable(fields) ==
  ParsedPayload(fields) = ParseError \/ ParsedHeaders(fields) = ParseError

\* One consumer that acks, or leaves unsettled, what it is handed; the producer
\* publishes an object and a string that is not JSON text.
NextPoison ==
  \/ EnsureSubscription
  \/ \E p \in {ObjPayload, VStr("hi")} : Publish(p, FALSE)
  \/ Loop("c1")

SpecPoison == Init /\ [][NextPoison]_vars

\* C22: when the loop dispatches an entry that does not decode, the entry
\* leaves the pending set, nothing is yielded for it and the loop goes on with
\* the rest of the batch; no later read returns it and no handle ever carries
\* its id.
C22_PoisonPill ==
  [][\A c \in Consumers :
       /\ (/\ pc[c] = "dispatch"
           /\ batch[c] # <<>>
           /\ Unparseable(Head(batch[c]).fields)
           /\ batch'[c] = Tail(batch[c])) =>
            /\ Head(batch[c]).id \notin InFlight'
            /\ Head(batch[c]).id \in dropped'
            /\ yields'[c] = yields[c]
            /\ pc'[c] = "dispatch"
       /\ ReadReturned(c) => SeqIds(batch'[c]) \cap dropped = {}
       /\ YieldedIds(c)' \cap dropped' = {}]_vars

\* The first entry of a batch was dropped and the second one yielded.
C22_Witness ==
  /\ dropped = {"0-1"}
  /\ pc["c1"] = "yielded"
  /\ handle["c1"].id = "0-2"
  /\ Len(yields["c1"]) = 1
  /\ "0-1" \notin InFlight
  /\ Len(streams[TopicKey]) = 2

(***************************************************************************)
(* Order of the initial deliveries.                                        *)
(***************************************************************************)
\* Where the entry with this id stands in the topic log.
LogIndex(id) == CHOOSE j \in DOMAIN streams[TopicKey] : streams[TopicKey][j].id = id

\* The i-th handle loop c yielded is the first one it yielded for that id.
IsFirstYield(c, i) == \A h \in 1 .. (i - 1) : yields[c][h].id # yields[c][i].id

\* C23: with one consumer loop, the first yields of published messages come
\* in the order of the log: a message published earlier is first yielded
\* before one published later.
C23_FifoInitialDeliveries ==
  \A i, j \in DOMAIN yields["c1"] :
    (/\ i < j
     /\ yields["c1"][i].id \in Published
     /\ yields["c1"][j].id \in Published
     /\ IsFirstYield("c1", i)
     /\ IsFirstYield("c1", j)) =>
      LogIndex(yields["c1"][i].id) < LogIndex(yields["c1"][j].id)

\* Two published messages first yielded in two different iterations.
C23_Witness ==
  /\ Len(yields["c1"]) >= 2
  /\ yields["c1"][1].id \in Published
  /\ yields["c1"][2].id \in Published
  /\ yields["c1"][1].id # yields["c1"][2].id
  /\ yields["c1"][1].at < yields["c1"][2].at
  /\ LogIndex(yields["c1"][1].id) < LogIndex(yields["c1"][2].id)

(***************************************************************************)
(* What was published against what is handed out.  The warm copy of a      *)
(* publish keeps the id the publish returned with the payload it was given.*)
(***************************************************************************)
\* Payloads of every JSON kind the codec treats differently: an object, a
\* number, null, a string that is no JSON text, strings that are JSON texts.
RoundTripPayloads ==
  {ObjPayload, VNum("1"), VNull, VStr("hi"), VStr("1e10"), VStr(QuotedHi)}

NextBackend ==
  \/ EnsureSubscription
  \/ \E p \in RoundTripPayloads : Publish(p, TRUE)
  \/ Start("c1")
  \/ Drain("c1")
  \/ AutoClaim("c1")
  \/ ReadNative("c1")
  \/ Find("c1")
  \/ Mark("c1")
  \/ Dispatch("c1")
  \/ Ack("c1")

SpecBackend == Init /\ [][NextBackend]_vars

\* The payloads that were published under an id (one, ids being unique).
PublishedAs(id) == {JsonParse(d.payload) : d \in {w \in warm : w.msgId = id}}

\* What a consumer of the native log is handed for a published payload
\* (ParseError: nothing, the entry is dropped).
NativeHandsOut(payload) ==
  ParsedPayload(NativeFields(XaddArgs(ToString(ProducerDefaults.maxStreamLen),
                                      toFlatArray(PublishEntry(payload, NoHeaders)))))

\* C24: a handle yielded for a published message carries the payload that a
\* consumer of the native log is handed for that message, whichever backend
\* the broker runs on.
C24_BackendEquivalence ==
  \A c \in Consumers :
    pc[c] = "yielded" =>
      \A p \in PublishedAs(handle[c].id) : handle[c].payload = NativeHandsOut(p)

\* C25: a handle yielded for a published message carries the payload that was
\* published and the headers that were published.
C25_PublishConsumeRoundTrip ==
  \A c \in Consumers :
    pc[c] = "yielded" =>
      \A p \in PublishedAs(handle[c].id) :
        handle[c].payload = p /\ handle[c].headers = NoHeaders

(***************************************************************************)
(* Settling a handle: deadLetter and nack.                                 *)
(***************************************************************************)
\* The newest entry of the DLQ.
LastDlqEntry(ss) == ss[DlqKey][Len(ss[DlqKey])]

\* The DLQ entry names this message, payload, headers and reason.
DlqEntryCarries(e, h, reason) ==
  /\ RawField(e.fields, "originalMsgId") = h.id
  /\ RawField(e.fields, "payload") = JsonStringify(h.payload)
  /\ RawField(e.fields, "headers") = JsonStringify(h.headers)
  /\ RawField(e.fields, "reason") = reason

\* C26: deadLetter() on the handle a loop has yielded appends one entry to the
\* DLQ that carries the handle's id, payload and headers and the reason
\* "Manual dead-letter"; the message leaves the pending set and its delivery
\* counter is deleted.
C26_DeadLetter ==
  [][\A c \in Consumers :
       DeadLetter(c, "Manual dead-letter") =>
         /\ Len(streams'[DlqKey]) = Len(streams[DlqKey]) + 1
         /\ DlqEntryCarries(LastDlqEntry(streams'), handle[c], "Manual dead-letter")
         /\ handle[c].id \notin InFlight'
         /\ handle[c].id \notin DOMAIN deliveryCounts'[c]]_vars

(***************************************************************************)
(* Subscription lifecycle.                                                 *)
(***************************************************************************)
\* Configurations ensureSubscription is called with: some fields given, none
\* given, and fields given as 0 and false.
SubConfigInputs ==
  {SubConfigInput, <<>>,
   [maxDeliveries |-> 0, blockMs |-> 0, deadLetterEnabled |-> FALSE],
   [visibilityTimeoutMs |-> 200, count |-> 1, shardCount |-> 2,
    retryBackoffMs |-> <<100>>]}

EnsureSubscriptionWith(config) ==
  /\ ensureSubscription(config)
  /\ UNCHANGED <<readyRetries, dropped, sharedVars, backend, now, streams, pel, retry, warm, pc, found, batch,
                 handle, deliveryCounts, yields, acked, pubResult>>

\* getSubscriptionConfig(topic, sub): the parsed state, or null (NoConfig).
getSubscriptionConfig == subConfig

\* Every default of a subscription state.
ConfigDefaults ==
  [visibilityTimeoutMs |-> TopicDefaults.visibilityTimeoutMs,
   maxDeliveries |-> TopicDefaults.maxDeliveries,
   retryBackoffMs |-> TopicDefaults.retryBackoffMs,
   deadLetterEnabled |-> TRUE, shardCount |-> 1, blockMs |-> 10000, count |-> 10]

NextLifecycle ==
  \/ \E config \in SubConfigInputs : EnsureSubscriptionWith(config)
  \/ DeleteSubscription
  \/ Publish(ObjPayload, FALSE)
  \/ Purge
  \/ \E c \in Consumers : Start(c)

SpecLifecycle == Init /\ [][NextLifecycle]_vars

C28_NackAtCap ==
  [][\A c \in Consumers, opts \in NackOpts, rnd \in Randoms :
       (/\ pc[c] = "yielded"
        /\ Deliveries(c) >= subConfig.maxDeliveries
        /\ Nack(c, opts, rnd)) =>
         /\ Len(streams'[DlqKey]) = Len(streams[DlqKey]) + 1
         /\ DlqEntryCarries(LastDlqEntry(streams'), handle[c], "Max deliveries exceeded")
         /\ handle[c].id \notin InFlight'
         /\ handle[c].id \notin DOMAIN deliveryCounts'[c]
         /\ retry' = retry]_vars

(***************************************************************************)
(* Negative acknowledgement: one loop whose every handle is nacked, with   *)
(* each shape of options, while the clock runs and retries come due.       *)
(***************************************************************************)
NextNack ==
  \/ EnsureSubscription
  \/ \E p \in {ObjPayload, VStr(QuotedHi)} : Publish(p, FALSE)
  \/ Tick
  \/ Start("c1")
  \/ Drain("c1")
  \/ AutoClaim("c1")
  \/ ReadNative("c1")
  \/ Find("c1")
  \/ Mark("c1")
  \/ Dispatch("c1")
  \/ \E opts \in NackOpts, rnd \in Randoms : Nack("c1", opts, rnd)

SpecNack == Init /\ [][NextNack]_vars

\* C29: nack() with requeue unset or false on a handle whose delivery count is
\* below maxDeliveries changes nothing in the store: the entry stays pending,
\* held by the same consumer, and the topic log, the DLQ, the retry set and
\* the delivery counter are as they were.
C29_NackWithoutRequeue ==
  [][\A c \in Consumers, opts \in {<<>>, [requeue |-> FALSE]}, rnd \in Randoms :
       (/\ pc[c] = "yielded"
        /\ Deliveries(c) < subConfig.maxDeliveries
        /\ Nack(c, opts, rnd)) =>
         /\ UNCHANGED <<streams, retry, pel, deliveryCounts>>
         /\ \E r \in pel' : r.id = handle[c].id /\ r.consumer = c]_vars

\* The only message was yielded once and nacked without requeue: it is still
\* pending for c1 with its counter, and nothing was written anywhere.
C29_Witness ==
  /\ pc["c1"] = "dispatch"
  /\ handle["c1"] = NoHandle
  /\ Len(yields["c1"]) = 1
  /\ Len(streams[TopicKey]) = 1
  /\ streams[DlqKey] = <<>>
  /\ retry = {}
  /\ \E r \in pel : r.id = yields["c1"][1].id /\ r.consumer = "c1"
  /\ yields["c1"][1].id \in DOMAIN deliveryCounts["c1"]

(***************************************************************************)
(* Where a delivered message is recorded.                                  *)
(***************************************************************************)
\* The topic log entries processRetries re-added for message id.
RetryEntriesOf(id) ==
  {e \in {streams[TopicKey][i] : i \in DOMAIN streams[TopicKey]} :
     \E j \in 1 .. (Len(e.fields) - 1) :
       e.fields[j] = "retryOf" /\ e.fields[j + 1] = id}

\* The message handed out as id is acked by the user, or stands in the pending
\* set, in the retry set or in the DLQ, or the topic log holds a retry entry
\* of it that no loop has taken yet, or one that was handed out and is itself
\* recorded.
RECURSIVE Recorded(_, _)
Recorded(id, seen) ==
  \/ id \in acked
  \/ id \in InFlight
  \/ \E m \in retry : m.member.msgId = id
  \/ \E i \in DOMAIN streams[DlqKey] :
       \E j \in DOMAIN streams[DlqKey][i].fields : streams[DlqKey][i].fields[j] = id
  \/ \E e \in RetryEntriesOf(id) :
       \/ e.id \notin YieldedIds("c1") \cup dropped
       \/ /\ e.id \in YieldedIds("c1")
          /\ e.id \notin seen
          /\ Recorded(e.id, seen \cup {e.id})

\* C30: without log trimming, after every step of the loop and of nack and
\* deadLetter, each message that was handed to the user and that the user has
\* not acked is recorded in the pending set, the retry set, the DLQ, or the
\* topic log as a retry entry not yet delivered.
C30_NoLoss == \A id \in YieldedIds("c1") : Recorded(id, {id})

(***************************************************************************)
(* processRetries call by call: zrangebyscore, then for each ready retry   *)
(* an xadd followed by a zrem.  Loops of one subscription share the retry  *)
(* set and the topic log, and their calls interleave.                      *)
(***************************************************************************)
\* A re-serialisation that loses the headers property.
ReserialisedWithoutHeaders(member) == [member EXCEPT !.headers = UNDEF]

\* JSON.stringify(entry) of the entry getReadyRetries parsed from a member.
Reserialised(member) ==
  RetryMember(member.msgId, MemberValue(member.payload), MemberValue(member.headers),
              member.attempt, member.nextRetryMs)

\* const readyRetries = await this.retryManager.getReadyRetries(..., 10, ...)
DrainRead(c) ==
  /\ pc[c] = "drain"
  /\ \E r \in getReadyRetries(retry, now, 10) :
       /\ readyRetries' = [readyRetries EXCEPT ![c] = r]
       /\ pc' = [pc EXCEPT ![c] = IF r = <<>> THEN "reclaim" ELSE "readd"]
  /\ UNCHANGED <<dropped, sharedVars, storeVars, now, found, batch, handle, deliveryCounts,
                 yields, acked, pubResult>>

\* await this.redis.xadd(topicKey, 'MAXLEN', '~', '100000', '*', ...toFlatArray(entry))
DrainAdd(c) ==
  /\ pc[c] = "readd"
  /\ Len(streams[TopicKey]) < MaxDrainLog
  /\ streams' = [streams EXCEPT ![TopicKey] = ReAdd(@, <<Head(readyRetries[c])>>, now, backend)]
  /\ pc' = [pc EXCEPT ![c] = "unretry"]
  /\ UNCHANGED <<readyRetries, dropped, sharedVars, backend, now, groups, lastDelivered, pel, retry,
                 subConfig, warm, found, batch, handle, deliveryCounts, yields, acked,
                 pubResult>>

\* await this.retryManager.removeRetry(topic, subscription, retry, ...); next retry
DrainRemove(c) ==
  /\ pc[c] = "unretry"
  /\ retry' = removeRetry(retry, Reserialised(Head(readyRetries[c])))
  /\ readyRetries' = [readyRetries EXCEPT ![c] = Tail(@)]
  /\ pc' = [pc EXCEPT ![c] = IF Tail(readyRetries[c]) = <<>> THEN "reclaim" ELSE "readd"]
  /\ UNCHANGED <<dropped, sharedVars, backend, now, streams, groups, lastDelivered, pel,
                 subConfig, warm, found, batch, handle, deliveryCounts, yields, acked,
                 pubResult>>

\* One iteration of the loop, its drain step taken call by call.
LoopByCall(c) ==
  \/ Start(c)
  \/ DrainRead(c)
  \/ DrainAdd(c)
  \/ DrainRemove(c)
  \/ AutoClaim(c)
  \/ ReadNative(c)
  \/ Find(c)
  \/ Mark(c)
  \/ Dispatch(c)

\* Two loops of the subscription; c1's handles are nacked for requeue, c2's
\* user keeps the handle it is given.
NextDrainers ==
  \/ EnsureSubscription
  \/ Publish(ObjPayload, FALSE)
  \/ Tick
  \/ LoopByCall("c1")
  \/ LoopByCall("c2")
  \/ Nack("c1", [requeue |-> TRUE], 0)

SpecDrainers == Init /\ [][NextDrainers]_vars

\* The nack calls that have completed: every handle yielded and no longer held.
NacksDone ==
  Cardinality({<<c, i>> \in Consumers \X (1 .. MaxYields) :
                 /\ i \in DOMAIN yields[c]
                 /\ ~(i = Len(yields[c]) /\ pc[c] = "yielded")})

\* C31: with two consumer loops of one subscription draining concurrently, the
\* topic log never holds more retry entries than nack{requeue:true} calls
\* have been made: each scheduled retry is re-appended at most once.
C31_RetryReaddedOnce ==
  Cardinality({i \in DOMAIN streams[TopicKey] : IsRetryEntry(streams[TopicKey][i])})
    <= NacksDone

(***************************************************************************)
(* One loop draining call by call; every handle is nacked for requeue,     *)
(* with either jitter draw.                                                *)
(***************************************************************************)
NextRetries ==
  \/ EnsureSubscription
  \/ \E p \in {ObjPayload, VStr("1e10")} : Publish(p, FALSE)
  \/ Tick
  \/ LoopByCall("c1")
  \/ \E rnd \in Randoms : Nack("c1", [requeue |-> TRUE], rnd)

SpecRetries == Init /\ [][NextRetries]_vars

\* A sequence of retry members stands in non-decreasing nextRetryMs order.
InRetryOrder(r) ==
  \A i, j \in DOMAIN r : i < j => r[i].nextRetryMs <= r[j].nextRetryMs

\* r is what a read of the retry set z at time t with LIMIT lim may return:
\* members of z that are due, at most lim of them, the earliest ones, in order.
DueEarliestFirst(r, z, t, lim) ==
  /\ Len(r) <= lim
  /\ InRetryOrder(r)
  /\ \A i \in DOMAIN r :
       \E m \in z : m.member = r[i] /\ m.score = r[i].nextRetryMs /\ m.score <= t
  /\ \A m \in z :
       (m.score <= t /\ \A i \in DOMAIN r : r[i] # m.member) =>
         /\ Len(r) = lim
         /\ \A i \in DOMAIN r : r[i].nextRetryMs <= m.score

\* C32: a drain step reads only retry entries whose next-attempt time is <= now,
\* at most 10 and the earliest first, in non-decreasing next-attempt order, and
\* re-appends them to the log one by one in that order; the same holds of the
\* read for smaller limits.
C32_DrainOrder ==
  /\ [][\A c \in Consumers :
          /\ (pc[c] = "drain" /\ pc'[c] # "drain") =>
               DueEarliestFirst(readyRetries'[c], retry, now, 10)
          /\ (pc[c] = "readd" /\ pc'[c] = "unretry") =>
               /\ Len(streams'[TopicKey]) = Len(streams[TopicKey]) + 1
               /\ streams'[TopicKey][Len(streams'[TopicKey])]
                    \in RetryEntriesOf(Head(readyRetries[c]).msgId)'
               /\ readyRetries'[c] = readyRetries[c]
          /\ (pc[c] = "unretry" /\ pc'[c] # "unretry") =>
               readyRetries'[c] = Tail(readyRetries[c])]_vars
  /\ [](\A lim \in 1 .. 2 : \A r \in getReadyRetries(retry, now, lim) :
          DueEarliestFirst(r, retry, now, lim))

\* Two retries with different next-attempt times were read together and the
\* earlier one has been re-appended.
C32_Witness ==
  /\ pc["c1"] = "unretry"
  /\ Len(readyRetries["c1"]) = 2
  /\ readyRetries["c1"][1].nextRetryMs < readyRetries["c1"][2].nextRetryMs
  /\ streams[TopicKey][Len(streams[TopicKey])]
       \in RetryEntriesOf(readyRetries["c1"][1].msgId)

\* C33: the removeRetry that follows a re-append takes that retry out of the
\* retry set (the member string it re-serialises is the one scheduleRetry
\* stored), so with one consumer loop the log never holds more retry entries
\* than nacks were made: no retry entry is re-appended by a later drain step.
C33_RemovedAfterReadd ==
  /\ [][\A c \in Consumers :
          (pc[c] = "unretry" /\ pc'[c] # "unretry") =>
            /\ \E m \in retry : m.member = Head(readyRetries[c])
            /\ \A m \in retry' : m.member # Head(readyRetries[c])]_vars
  /\ [](Cardinality({i \in DOMAIN streams[TopicKey] : IsRetryEntry(streams[TopicKey][i])})
          <= NacksDone)

\* Two drain steps have each re-appended one retry and completed: the retry
\* set is empty and the log holds the two retry entries.
C33_Witness ==
  /\ pc["c1"] = "reclaim"
  /\ readyRetries["c1"] = <<>>
  /\ retry = {}
  /\ Len(yields["c1"]) = 2
  /\ Cardinality({i \in DOMAIN streams[TopicKey] : IsRetryEntry(streams[TopicKey][i])}) = 2

(***************************************************************************)
(* MongoAdapter.xadd call by call: count the documents of this             *)
(* millisecond, insert, then count the stream and delete the oldest        *)
(* documents beyond MAXLEN.  Callers await each step; their steps          *)
(* interleave.                                                             *)
(***************************************************************************)
MaxAppends == 4

\* The MAXLEN a caller passes: the configured defaults.maxStreamLen.
MaxLens == {"1", "100000"}

\* s without the entries at the positions D.
Without(s, D) ==
  LET kept == DOMAIN s \ D
      at(k) == CHOOSE i \in kept : Cardinality({j \in kept : j < i}) = k - 1
  IN [k \in 1 .. Cardinality(kept) |-> s[at(k)]]

\* find({stream}).sort({timestamp: 1, sequence: 1}).limit(n): the position sets
\* the query may return; documents equal in (timestamp, sequence) come in any
\* order.
Oldest(s, n) ==
  {D \in SUBSET DOMAIN s :
     /\ Cardinality(D) = n
     /\ \A i \in D, j \in DOMAIN s \ D :
          ~IdLess(<<s[j].ts, s[j].seq>>, <<s[i].ts, s[i].seq>>)}

\* const now = Date.now(); const count = await countDocuments({stream, timestamp: now})
XaddCount(a, maxlen, payload) ==
  /\ backend = "emulated"
  /\ xaddCall[a] = NoCall
  /\ Len(returnedIds) + Cardinality({b \in Appenders : xaddCall[b] # NoCall}) < MaxAppends
  /\ xaddCall' =
       [b \in Appenders |->
          IF b = a THEN
            [pc |-> "insert",
             args |-> XaddArgs(maxlen, toFlatArray(PublishEntry(payload, NoHeaders))),
             idp |-> MongoNewId(streams[TopicKey], now),
             alone |-> \A o \in Appenders \ {a} : xaddCall[o] = NoCall]
          ELSE IF xaddCall[b] = NoCall THEN NoCall
          ELSE [xaddCall[b] EXCEPT !.alone = FALSE]]
  /\ UNCHANGED <<kv, lastOp, purgeStats, returnedIds, ensureCall, storeVars, now, loopVars, pubResult>>

\* await insertOne({stream, id: msgId, timestamp: now, sequence: count, fields, ...})
XaddInsert(a) ==
  /\ xaddCall[a].pc = "insert"
  /\ Len(streams[TopicKey]) < MaxLog
  /\ streams' = [streams EXCEPT ![TopicKey] =
                   Append(@, [id |-> IdStr(xaddCall[a].idp), ts |-> xaddCall[a].idp[1],
                              seq |-> xaddCall[a].idp[2],
                              fields |-> MongoFields(xaddCall[a].args)])]
  /\ xaddCall' = [xaddCall EXCEPT ![a].pc = "trim"]
  /\ UNCHANGED <<kv, lastOp, purgeStats, returnedIds, ensureCall, backend, now, groups, lastDelivered, pel,
                 retry, subConfig, warm, loopVars, pubResult>>

\* if (maxlen) { count; if (count > maxlen) find oldest, deleteMany }; return msgId
XaddTrim(a) ==
  /\ xaddCall[a].pc = "trim"
  /\ LET maxlen == MongoScan(xaddCall[a].args, 0).maxlen
         count == Len(streams[TopicKey])
     IN IF maxlen > 0 /\ count > maxlen THEN
          \E D \in Oldest(streams[TopicKey], count - maxlen) :
            streams' = [streams EXCEPT ![TopicKey] = Without(@, D)]
        ELSE UNCHANGED streams
  /\ returnedIds' = Append(returnedIds, xaddCall[a].idp)
  /\ xaddCall' = [xaddCall EXCEPT ![a] = NoCall]
  /\ UNCHANGED <<kv, lastOp, purgeStats, ensureCall, backend, now, groups, lastDelivered, pel, retry,
                 subConfig, warm, loopVars, pubResult>>

NextLog ==
  \/ Tick
  \/ \E a \in Appenders, maxlen \in MaxLens, payload \in {ObjPayload, BigPayload} :
       XaddCount(a, maxlen, payload)
  \/ \E a \in Appenders : XaddInsert(a)
  \/ \E a \in Appenders : XaddTrim(a)

SpecLog == Init /\ [][NextLog]_vars

\* C34: on the emulated backend the ids xadd returns grow strictly, by
\* timestamp and then sequence, and no two entries of the log share an id,
\* also with two appends in the same millisecond and after trimming.
C34_AppendIds ==
  /\ \A i, j \in DOMAIN returnedIds : i < j => IdLess(returnedIds[i], returnedIds[j])
  /\ \A i, j \in DOMAIN streams[TopicKey] :
       i # j => streams[TopicKey][i].id # streams[TopicKey][j].id

\* C35: when an xadd with MAXLEN n >= 1 that no other append overlapped
\* completes, the log holds at most n entries, what was removed are the oldest
\* entries by (timestamp, sequence), and the entry the call inserted is kept.
C35_SoftTrim ==
  [][\A a \in Appenders :
       (/\ xaddCall[a].pc = "trim"
        /\ xaddCall'[a] = NoCall
        /\ xaddCall[a].alone
        /\ MongoScan(xaddCall[a].args, 0).maxlen >= 1) =>
         LET s == streams[TopicKey]
             maxlen == MongoScan(xaddCall[a].args, 0).maxlen
         IN /\ Len(streams'[TopicKey]) <= maxlen
            /\ \E D \in SUBSET DOMAIN s :
                 /\ streams'[TopicKey] = Without(s, D)
                 /\ Cardinality(D) = IF Len(s) > maxlen THEN Len(s) - maxlen ELSE 0
                 /\ \A i \in D, j \in DOMAIN s \ D :
                      ~IdLess(<<s[j].ts, s[j].seq>>, <<s[i].ts, s[i].seq>>)
            /\ streams'[TopicKey] # <<>>
            /\ streams'[TopicKey][Len(streams'[TopicKey])] = s[Len(s)]]_vars

\* C36: the reclaim step of a loop transfers only entries that are in flight
\* and idle for at least the visibility timeout, and afterwards each
\* transferred entry has exactly one in-flight record, held by the reclaiming
\* consumer; no entry ever has two in-flight records.
C36_SingleActiveDelivery ==
  /\ [][\A c \in Consumers :
          (pc[c] = "reclaim" /\ pc'[c] = "read") =>
            \A r \in pel' \ pel :
              /\ r.consumer = c
              /\ \E q \in pel : q.id = r.id /\ now - q.at >= subConfig.visibilityTimeoutMs
              /\ \A q \in pel' : q.id = r.id => q = r]_vars
  /\ [](\A q, r \in pel : q.id = r.id => q = r)

\* C37: the redeliveryCount values a loop has seen on successive deliveries
\* of one message id never decrease, whatever acks, nacks, dead-letters,
\* reclaims and drains happened in between.
C37_CountMonotone ==
  \A c \in Consumers : \A i, j \in DOMAIN yields[c] :
    (i < j /\ yields[c][i].id = yields[c][j].id) =>
      yields[c][i].redeliveryCount <= yields[c][j].redeliveryCount

\* C38: stats(topic) reports as length the number of entries in the topic log
\* and as groups the number of consumer groups on it, on either backend, and
\* ack, nack and deadLetter change neither.
C38_Stats ==
  /\ getStats.length = Len(streams[TopicKey])
  /\ getStats.groups = VNum(ToString(Cardinality(groups)))


(***************************************************************************)
(* Subscriptions created with deadLetterEnabled: false, one loop whose     *)
(* every handle is nacked.                                                 *)
(***************************************************************************)
\* Configurations that switch dead-lettering off, with the default delivery
\* cap and with a cap of 1.
DlqOffInputs ==
  {[deadLetterEnabled |-> FALSE],
   [deadLetterEnabled |-> FALSE, maxDeliveries |-> 1]}

NextDlqOff ==
  \/ \E config \in DlqOffInputs : EnsureSubscriptionWith(config)
  \/ Publish(ObjPayload, FALSE)
  \/ Tick
  \/ Start("c1")
  \/ Drain("c1")
  \/ AutoClaim("c1")
  \/ ReadNative("c1")
  \/ Find("c1")
  \/ Mark("c1")
  \/ Dispatch("c1")
  \/ \E opts \in NackOpts : Nack("c1", opts, 0)

SpecDlqOff == Init /\ [][NextDlqOff]_vars

\* C39: on a subscription created with deadLetterEnabled = false a nack never
\* appends to the DLQ: the DLQ is as long after the nack as before it.
C39_NoDlqWhenDisabled ==
  [][\A c \in Consumers : \A opts \in NackOpts :
       (pc[c] = "yielded" /\ ~subConfig.deadLetterEnabled /\ Nack(c, opts, 0)) =>
         Len(streams'[DlqKey]) = Len(streams[DlqKey])]_vars


(***************************************************************************)
(* ensureTopic and ensureSubscription call by call (bus/topics.ts), two    *)
(* callers, while messages are published and a loop reads and acks them.   *)
(***************************************************************************)
InitGroup == "_init"
BusyGroup == "BUSYGROUP Consumer Group name already exists"

\* err.message?.includes(part)
Includes(text, part) ==
  \E i \in 1 .. Len(text) - Len(part) + 1 : SubSeq(text, i, i + Len(part) - 1) = part

\* A group creation that replaces the group when it is there.
xgroupCreateOver(gs, group) == [groups |-> gs \cup {group}, created |-> TRUE, error |-> ""]

\* xgroup('CREATE', stream, group, '0', 'MKSTREAM'): the emulated insertOne
\* fails on the unique index (code 11000) when the group is there and the
\* adapter throws BUSYGROUP, as the native command does.
xgroupCreate(gs, group) ==
  IF group \in gs THEN [groups |-> gs, created |-> FALSE, error |-> BusyGroup]
  ELSE [groups |-> gs \cup {group}, created |-> TRUE, error |-> ""]

\* Where a call stands after a group creation inside try/catch: the next
\* statement of the try block, the statement after the catch when the error
\* is swallowed, or thrown out of the call.
AfterCreate(call, reply, group, inTry, afterCatch) ==
  IF reply.error = "" THEN [call EXCEPT !.pc = inTry]
  ELSE IF Includes(reply.error, "BUSYGROUP") THEN
    [call EXCEPT !.pc = afterCatch, !.swallowed = @ \cup {group}]
  ELSE [call EXCEPT !.pc = "threw"]

ensureFrame ==
  <<kv, lastOp, purgeStats, xaddCall, returnedIds, backend, now, streams, pel, retry, warm,
    loopVars, pubResult>>

\* ensureTopic(topic) or ensureSubscription(topic, sub, config) is called.
EnsureCall(a, kind, config) ==
  /\ ensureCall[a] = NoCall
  /\ ensureCall' = [ensureCall EXCEPT ![a] =
       [pc |-> "createInit", kind |-> kind, config |-> config, swallowed |-> {}]]
  /\ UNCHANGED <<ensureFrame, groups, lastDelivered, subConfig>>

\* ensureTopic: xgroup('CREATE', topicKey, '_init', '0', 'MKSTREAM')
CreateInit(a) ==
  /\ ensureCall[a].pc = "createInit"
  /\ LET reply == xgroupCreate(groups, InitGroup)
     IN /\ groups' = reply.groups
        /\ ensureCall' = [ensureCall EXCEPT ![a] =
             AfterCreate(@, reply, InitGroup, "destroyInit", "saveTopic")]
  /\ UNCHANGED <<ensureFrame, lastDelivered, subConfig>>

\* ensureTopic: xgroup('DESTROY', topicKey, '_init')
DestroyInit(a) ==
  /\ ensureCall[a].pc = "destroyInit"
  /\ groups' = groups \ {InitGroup}
  /\ ensureCall' = [ensureCall EXCEPT ![a].pc = "saveTopic"]
  /\ UNCHANGED <<ensureFrame, lastDelivered, subConfig>>

\* ensureTopic: warm.saveTopic(topic, 1), an upsert into the warm 'topics'
\* collection; ensureTopic returns, ensureSubscription goes on.
SaveTopic(a) ==
  /\ ensureCall[a].pc = "saveTopic"
  /\ ensureCall' = [ensureCall EXCEPT ![a] =
       IF @.kind = "topic" THEN NoCall ELSE [@ EXCEPT !.pc = "createGroup"]]
  /\ UNCHANGED <<ensureFrame, groups, lastDelivered, subConfig>>

\* ensureSubscription: xgroup('CREATE', topicKey, groupName, '0', 'MKSTREAM')
CreateGroup(a) ==
  /\ ensureCall[a].pc = "createGroup"
  /\ LET reply == xgroupCreate(groups, GroupName)
     IN /\ groups' = reply.groups
        /\ lastDelivered' = IF reply.created THEN <<0, 0>> ELSE lastDelivered
        /\ ensureCall' = [ensureCall EXCEPT ![a] =
             AfterCreate(@, reply, GroupName, "hset", "hset")]
  /\ UNCHANGED <<ensureFrame, subConfig>>

\* ensureSubscription: hset(configKey, 'config', JSON.stringify(state))
StoreConfig(a) ==
  /\ ensureCall[a].pc = "hset"
  /\ subConfig' = ParseState(StateJson(SubscriptionState(ensureCall[a].config)))
  /\ ensureCall' = [ensureCall EXCEPT ![a] = NoCall]
  /\ UNCHANGED <<ensureFrame, groups, lastDelivered>>

EnsureStep(a) ==
  CreateInit(a) \/ DestroyInit(a) \/ SaveTopic(a) \/ CreateGroup(a) \/ StoreConfig(a)

NextEnsure ==
  \/ \E a \in Callers : EnsureCall(a, "topic", <<>>)
  \/ \E a \in Callers : EnsureCall(a, "subscription", SubConfigInput)
  \/ \E a \in Callers : EnsureStep(a)
  \/ Publish(ObjPayload, FALSE)
  \/ Start("c1")
  \/ Drain("c1")
  \/ AutoClaim("c1")
  \/ ReadNative("c1")
  \/ Find("c1")
  \/ Mark("c1")
  \/ Dispatch("c1")
  \/ Ack("c1")

SpecEnsure == Init /\ [][NextEnsure]_vars

\* C40: ensureTopic and ensureSubscription on a topic and subscription that
\* exist, also from two callers at once, never throw (the already-exists error
\* is swallowed), leave the log's entries, the in-flight set and the existing
\* group with its delivered position as they were, and no '_init' group is
\* left once the calls have returned.
C40_EnsureIdempotent ==
  /\ [][\A a \in Callers :
          EnsureStep(a) =>
            /\ ensureCall'[a].pc # "threw"
            /\ streams' = streams
            /\ pel' = pel
            /\ GroupName \in groups =>
                 (GroupName \in groups' /\ lastDelivered' = lastDelivered)]_vars
  /\ []((\A a \in Callers : ensureCall[a] = NoCall) => InitGroup \notin groups)

\* Two calls overlap on a subscription that has delivered and in-flight
\* messages, and one of them has had both already-exists errors swallowed.
C40_Witness ==
  /\ \A a \in Callers : ensureCall[a] # NoCall
  /\ \E a \in Callers :
       ensureCall[a].pc = "hset" /\ ensureCall[a].swallowed = {InitGroup, GroupName}
  /\ streams[TopicKey] # <<>>
  /\ pel # {}

====
